---- MODULE Spec2Model ----
(***************************************************************************)
(* Respawn timers of the LINE boss reminder bots.                          *)
(*                                                                         *)
(* The repository holds several deployable programs that share one         *)
(* registry layout.  The model runs one of them at a time (variable        *)
(* variant, fixed in Init):                                                *)
(*   "sheet"    src/index.js 1-283: commands and scheduler in one process, *)
(*              catch-up adds one interval to the stored target;           *)
(*   "sheetNow" src/index.js 514-741: the same, catch-up sets the target   *)
(*              to now + interval;                                         *)
(*   "botAB"    src/unnamed/part_004 491-1229 (bot A: commands only, the   *)
(*              list command performs the catch-up) together with          *)
(*              src/unnamed/part_006 (bot B: read-only notifier that       *)
(*              reloads the sheet at the start of every tick).             *)
(*                                                                         *)
(* Time is counted in units of 1/Res minute, so that a tick can fire a     *)
(* fraction of a minute early or late and dayjs's whole-minute diff        *)
(* truncates.                                                              *)
(***************************************************************************)
EXTENDS Integers, Sequences, FiniteSets, TLC

\* ----------------------------------------------------------------- bounds
Res == 2
MaxMinutes == 12
MaxCmds == 1
MaxFaults == 1

\* The process starts at Start; rows written before that may hold earlier
\* targets.
Start == 10 * Res
MaxTime == Start + MaxMinutes * Res

\* ------------------------------------------------------ program constants
NotifyLead == 10
LeadFloor == 9
Null == -1
\* parseFloat of a text that is no number
NaN == -999999

Names == {"A", "B"}
Variants == {"sheet", "sheetNow", "botAB"}
Today == "MON"

\* A duration argument "ip.fd" of /設定 and /重生: the integer part and the
\* digits typed after the dot (none when there is no dot).
Dur(ip, fd) == [neg |-> FALSE, ip |-> ip, dot |-> fd # <<>>, fd |-> fd]
\* "-H.MM", "H." and a text that holds no number
MinusDur(ip, fd) == [neg |-> TRUE, ip |-> ip, dot |-> fd # <<>>, fd |-> fd]
EmptyFraction(ip) == [neg |-> FALSE, ip |-> ip, dot |-> TRUE, fd |-> <<>>]
NotNumber == [neg |-> FALSE, ip |-> NaN, dot |-> FALSE, fd |-> <<>>]
IntervalInputs == {Dur(0, <<1, 2>>), Dur(0, <<0, 4>>)}
RemainInputs == {Dur(0, <<1, 1>>), Dur(0, <<0, 2>>)}

\* Rows found in the sheet when the process starts, as earlier runs of the
\* bot left them: a boss reported 11 minutes ahead, and a boss whose target
\* passed 8 minutes (two intervals) ago while nothing was running.
RowDue(n) ==
  [name |-> n, interval |-> 12, nextRespawn |-> Start + 11 * Res,
   notified |-> FALSE, notifyDate |-> "ALL", missedCount |-> 0]
RowOverdue(n) ==
  [name |-> n, interval |-> 4, nextRespawn |-> Start - 8 * Res,
   notified |-> FALSE, notifyDate |-> "ALL", missedCount |-> 0]
InitialSheets == {<<>>, <<RowDue("A")>>, <<RowOverdue("A"), RowDue("B")>>}

VARIABLES
  variant,    \* which program is deployed
  now,        \* wall clock, in units of 1/Res minute
  ticked,     \* the cron callback already ran in the current minute
  notifyAll,  \* global switch of the command bot
  bossData,   \* registry of the command bot (and scheduler), in key order
  sheet,      \* rows A2.. of the Google Sheet
  bossDataB,  \* registry of the read-only notifier (bot B), in key order
  pushed,     \* per name: the target last pushed for and the pushes made for it
  log,        \* per name: what the tick of this instant did with it
  cmds,       \* chat commands handled so far
  faults,     \* API calls rejected so far
  reply,      \* what the chat command of this step answered
  inflight,   \* the push the cron callback is awaiting, and the entries left
  writes      \* values.update requests sent and not yet applied, as snapshots

vars == <<variant, now, ticked, notifyAll, bossData, sheet, bossDataB,
          pushed, log, cmds, faults, reply, inflight, writes>>

\* --------------------------------------------------------------- helpers
\* A registry is a JavaScript object: its entries in insertion order.
Keys(reg) == {reg[i].name : i \in 1..Len(reg)}

Has(reg, n) == n \in Keys(reg)

Idx(reg, n) == CHOOSE i \in 1..Len(reg) : reg[i].name = n

Get(reg, n) == reg[Idx(reg, n)]

Put(reg, rec) ==
  IF Has(reg, rec.name)
  THEN [reg EXCEPT ![Idx(reg, rec.name)] = rec]
  ELSE Append(reg, rec)

Remove(reg, n) == SelectSeq(reg, LAMBDA r : r.name # n)

NoLog == [n \in Names |-> "none"]

\* client.replyMessage: the kind of text and the values printed in it
Answer(kind, n) ==
  [kind |-> kind, name |-> n, h |-> 0, m |-> 0, at |-> Null, lines |-> <<>>]
NoReply == Answer("none", "-")
NoPush == [n \in Names |-> [target |-> Null, count |-> 0, failed |-> 0]]
\* No push is awaited: the cron callback is not running.
NoFlight == [name |-> "-", target |-> Null, rest |-> <<>>]

\* dayjs(a).diff(b, "minute"): the difference truncated toward zero.
DiffMinutes(target, t) ==
  IF target >= t THEN (target - t) \div Res ELSE 0 - ((t - target) \div Res)

RECURSIVE DigitsVal(_)
DigitsVal(fd) ==
  IF fd = <<>> THEN 0 ELSE 10 * DigitsVal(SubSeq(fd, 1, Len(fd) - 1)) + fd[Len(fd)]

RECURSIVE Pow10(_)
Pow10(k) == IF k = 0 THEN 1 ELSE 10 * Pow10(k - 1)

\* Math.round of num/den for num >= 0.
RoundDiv(num, den) == (2 * num + den) \div (2 * den)

\* the fraction read as a decimal part of an hour
ParseHMDecimal(s) ==
  IF s.ip = NaN THEN [h |-> NaN, m |-> NaN]
  ELSE [h |-> s.ip, m |-> RoundDiv(DigitsVal(s.fd) * 60, Pow10(Len(s.fd)))]

\* raw = parseFloat(str); h = Math.floor(raw); m = Math.round((raw - h) * 100)
\* A text that is no number gives NaN for all three; for a negative raw with
\* a fraction, Math.floor goes one below and m is taken from 1 - fraction.
ParseHM(s) ==
  IF s.ip = NaN THEN [h |-> NaN, m |-> NaN]
  ELSE IF s.neg /\ DigitsVal(s.fd) # 0
  THEN [h |-> 0 - s.ip - 1,
        m |-> RoundDiv((Pow10(Len(s.fd)) - DigitsVal(s.fd)) * 100,
                       Pow10(Len(s.fd)))]
  ELSE IF s.neg THEN [h |-> 0 - s.ip, m |-> 0]
  ELSE [h |-> s.ip, m |-> RoundDiv(DigitsVal(s.fd) * 100, Pow10(Len(s.fd)))]

\* interval = h + m / 60 hours, kept here as minutes
IntervalOf(s) ==
  IF ParseHM(s).h = NaN THEN NaN ELSE 60 * ParseHM(s).h + ParseHM(s).m

\* !x of JavaScript for a number
Falsy(x) == x = 0 \/ x = NaN

\* dayjs().add(h, "hour").add(m, "minute")
AddToNow(t, h, m) == t + (60 * h + m) * Res

\* saveBossDataToSheet: values.update writes one row per entry from row A2
\* on and leaves the rows below them as they were; a failed request is
\* caught and logged and leaves the sheet as it was.
Save(reg, sh, ok) ==
  IF ok THEN reg \o SubSeq(sh, Len(reg) + 1, Len(sh)) ELSE sh

\* loadBossData: bossData = {} and then one assignment per row, so a name
\* keeps the place of its first row and the values of its last one.
RECURSIVE LoadRows(_, _)
LoadRows(rows, reg) ==
  IF rows = <<>> THEN reg
  ELSE LoadRows(Tail(rows),
                Put(reg, [Head(rows) EXCEPT
                            !.interval = IF Falsy(@) THEN 0 ELSE @]))

Load(sh) == LoadRows(sh, <<>>)

\* notifyDate check of the scheduler: "ALL", or a comma list holding today
AllowedDays(nd) == {nd}
DayPermits(nd) == nd = "ALL" \/ Today \in AllowedDays(nd)

\* client.pushMessage calls are counted per target, delivered and rejected:
\* the counts are kept while the store the notifier reads still holds the
\* target they were made for.
KeepPushed(p, store) ==
  [n \in Names |->
     IF Has(store, n) /\ Get(store, n).nextRespawn = p[n].target
     THEN p[n] ELSE NoPush[n]]

PushTo(p, n, target) ==
  [p EXCEPT ![n] = IF @.target = target
                   THEN [@ EXCEPT !.count = @ + 1]
                   ELSE [target |-> target, count |-> 1, failed |-> 0]]

PushFailed(p, n, target) ==
  [p EXCEPT ![n] = IF @.target = target
                   THEN [@ EXCEPT !.failed = @ + 1]
                   ELSE [target |-> target, count |-> 0, failed |-> 1]]

\* Outcomes of a call to the Sheets or LINE API: it may be rejected while
\* fewer than MaxFaults calls were.
Outcomes(k) == IF k < MaxFaults THEN BOOLEAN ELSE {TRUE}
Cost(ok) == IF ok THEN 0 ELSE 1
NoName == "-"
\* The record, if any, whose push or whose save is rejected in one tick.
TickFaults(k) ==
  {[push |-> NoName, save |-> NoName]} \cup
  (IF k < MaxFaults
   THEN {[push |-> n, save |-> NoName] : n \in Names} \cup
        {[push |-> NoName, save |-> n] : n \in Names}
   ELSE {})

Store(v, reg, sh) == IF v = "botAB" THEN Load(sh) ELSE reg

\* ------------------------------------------------------------------ Init
Init ==
  /\ variant \in Variants
  /\ now = Start
  /\ ticked = FALSE
  /\ notifyAll = TRUE
  /\ sheet \in InitialSheets
  /\ bossData = Load(sheet)
  /\ bossDataB = <<>>
  /\ pushed = NoPush
  /\ log = NoLog
  /\ cmds = 0
  /\ faults = 0
  /\ reply = NoReply
  /\ inflight = NoFlight
  /\ writes = <<>>

\* -------------------------------------------------------------- commands
\* /設定 name interval
SetIntervalRec(reg, n, s) ==
  LET iv == IntervalOf(s) IN
  IF Has(reg, n)
  THEN [Get(reg, n) EXCEPT !.interval = iv]
  ELSE [name |-> n, interval |-> iv, nextRespawn |-> Null, notified |-> FALSE,
        notifyDate |-> "ALL", missedCount |-> 0]

SetInterval(n, s) ==
  /\ cmds < MaxCmds
  /\ cmds' = cmds + 1
  /\ bossData' = Put(bossData, SetIntervalRec(bossData, n, s))
  /\ \E ok \in Outcomes(faults) :
       /\ sheet' = Save(bossData', sheet, ok)
       /\ faults' = faults + Cost(ok)
  /\ pushed' = KeepPushed(pushed, Store(variant, bossData', sheet'))
  /\ log' = NoLog
  /\ reply' = [Answer("intervalSet", n) EXCEPT !.h = ParseHM(s).h,
                                              !.m = ParseHM(s).m]
  /\ UNCHANGED <<variant, now, ticked, notifyAll, bossDataB, inflight, writes>>

\* A report that moves the target and leaves the flag as it was.
RespawnRecKeepsFlag(rec, t, s) ==
  [rec EXCEPT !.nextRespawn = AddToNow(t, ParseHM(s).h, ParseHM(s).m),
              !.missedCount = 0]

\* /重生 name remaining
RespawnRec(rec, t, s) ==
  [rec EXCEPT !.nextRespawn = AddToNow(t, ParseHM(s).h, ParseHM(s).m),
              !.notified = FALSE,
              !.missedCount = 0]

Configured(reg, n) == Has(reg, n) /\ ~Falsy(Get(reg, n).interval)

Respawn(n, s) ==
  /\ cmds < MaxCmds
  /\ cmds' = cmds + 1
  /\ log' = NoLog
  /\ IF ~Configured(bossData, n)
     THEN /\ reply' = Answer("configureFirst", n)
          /\ UNCHANGED <<bossData, sheet, pushed, faults>>
     ELSE IF ParseHM(s).h = NaN
     THEN \* toISOString of an invalid date throws before the assignment
          /\ reply' = Answer("thrown", n)
          /\ UNCHANGED <<bossData, sheet, pushed, faults>>
     ELSE /\ bossData' = Put(bossData, RespawnRec(Get(bossData, n), now, s))
          /\ \E ok \in Outcomes(faults) :
               /\ sheet' = Save(bossData', sheet, ok)
               /\ faults' = faults + Cost(ok)
          /\ pushed' = KeepPushed([pushed EXCEPT ![n] = NoPush[n]],
                                  Store(variant, bossData', sheet'))
          /\ reply' = [Answer("respawnSet", n) EXCEPT
                         !.at = Get(bossData', n).nextRespawn]
  /\ UNCHANGED <<variant, now, ticked, notifyAll, bossDataB, inflight, writes>>

\* /刪除 name
Delete(n) ==
  /\ cmds < MaxCmds
  /\ cmds' = cmds + 1
  /\ log' = NoLog
  /\ IF Has(bossData, n)
     THEN /\ bossData' = Remove(bossData, n)
          /\ \E ok \in Outcomes(faults) :
               /\ sheet' = Save(bossData', sheet, ok)
               /\ faults' = faults + Cost(ok)
          /\ pushed' = KeepPushed(pushed, Store(variant, bossData', sheet'))
          /\ reply' = Answer("deleted", n)
     ELSE /\ reply' = Answer("absent", n)
          /\ UNCHANGED <<bossData, sheet, pushed, faults>>
  /\ UNCHANGED <<variant, now, ticked, notifyAll, bossDataB, inflight, writes>>

\* /開啟通知 and /關閉通知
SetNotify(v) ==
  /\ cmds < MaxCmds
  /\ cmds' = cmds + 1
  /\ log' = NoLog
  /\ notifyAll' = v
  /\ reply' = Answer(IF v THEN "notifyOn" ELSE "notifyOff", "-")
  /\ UNCHANGED <<variant, now, ticked, bossData, sheet, bossDataB, inflight, writes, pushed, faults>>

\* ------------------------------------------------- scheduler (index.js)
\* The reminder branch of one record: push, then set the flag and save;
\* a rejected push is caught and logged.
NotifyBranch(st, i, diff, na, pOk, sOk) ==
  LET b == st.bd[i] IN
  IF diff <= NotifyLead /\ diff > LeadFloor /\ ~b.notified /\ na
  THEN IF pOk
       THEN LET bd1 == [st.bd EXCEPT ![i].notified = TRUE] IN
            [bd |-> bd1,
             sh |-> Save(bd1, st.sh, sOk),
             p  |-> PushTo(st.p, b.name, b.nextRespawn),
             lg |-> [st.lg EXCEPT ![b.name] = "sent"],
             nf |-> st.nf + Cost(sOk)]
       ELSE [st EXCEPT !.p = PushFailed(st.p, b.name, b.nextRespawn),
                       !.lg[b.name] = "failed", !.nf = @ + 1]
  ELSE st

\* The target written by the catch-up branch: the stored target plus one
\* interval, or (index.js 727) now plus one interval.
CatchUpTarget(b, t, fromNow) ==
  IF fromNow THEN t + b.interval * Res ELSE b.nextRespawn + b.interval * Res

\* The catch-up branch of one record, on the diff computed before the
\* reminder branch ran.
CatchUpBranch(st, i, diff, t, sOk, fromNow) ==
  LET b == st.bd[i] IN
  IF diff <= 0
  THEN LET bd1 == [st.bd EXCEPT ![i].missedCount = @ + 1,
                                ![i].nextRespawn = CatchUpTarget(b, t, fromNow),
                                ![i].notified = FALSE] IN
       [bd |-> bd1,
        sh |-> Save(bd1, st.sh, sOk),
        p  |-> st.p,
        lg |-> [st.lg EXCEPT ![b.name] = "caught"],
        nf |-> st.nf + Cost(sOk)]
  ELSE st

\* The body of the for loop for entry i.
SchedulerRecord(st, i, t, na, pOk, sOk, fromNow) ==
  LET b == st.bd[i] IN
  IF b.nextRespawn = Null \/ Falsy(b.interval)
  THEN [st EXCEPT !.lg[b.name] = "skip"]
  ELSE IF ~DayPermits(b.notifyDate)
  THEN [st EXCEPT !.lg[b.name] = "masked"]
  ELSE LET diff == DiffMinutes(b.nextRespawn, t)
           s0 == [st EXCEPT !.lg[b.name] = "idle"]
           s1 == NotifyBranch(s0, i, diff, na, pOk # b.name, sOk # b.name)
       IN CatchUpBranch(s1, i, diff, t, sOk # b.name, fromNow)

RECURSIVE SchedulerLoop(_, _, _, _, _, _, _)
SchedulerLoop(st, i, t, na, pOk, sOk, fromNow) ==
  IF i > Len(st.bd) THEN st
  ELSE SchedulerLoop(SchedulerRecord(st, i, t, na, pOk, sOk, fromNow),
                     i + 1, t, na, pOk, sOk, fromNow)

\* cron.schedule("* * * * *", ...) of the command bot
SchedulerTick ==
  /\ variant \in {"sheet", "sheetNow"}
  /\ ~ticked
  /\ ticked' = TRUE
  /\ \E f \in TickFaults(faults) :
       LET r == SchedulerLoop([bd |-> bossData, sh |-> sheet, p |-> pushed,
                               lg |-> NoLog, nf |-> 0],
                              1, now, notifyAll, f.push, f.save,
                              variant = "sheetNow")
       IN /\ f.push = NoName /\ f.save = NoName => r.nf = 0
          /\ f.push # NoName \/ f.save # NoName => r.nf > 0
          /\ bossData' = r.bd
          /\ sheet' = r.sh
          /\ pushed' = KeepPushed(r.p, r.bd)
          /\ log' = r.lg
          /\ faults' = faults + r.nf
  /\ reply' = NoReply
  /\ UNCHANGED <<variant, now, notifyAll, bossDataB, inflight, writes, cmds>>

\* ------------------------------------- read-only notifier (part_006)
\* The body of sendNotifications' loop for entry i; st.run is FALSE once a
\* rejected push has thrown out of the loop.
NotifierRecord(st, i, t, pOk) ==
  LET b == st.bd[i] IN
  IF ~st.run THEN st
  ELSE IF b.nextRespawn = Null \/ Falsy(b.interval)
  THEN [st EXCEPT !.lg[b.name] = "skip"]
  ELSE LET diffMin == DiffMinutes(b.nextRespawn, t) IN
       IF diffMin > 0 /\ diffMin <= NotifyLead
       THEN IF b.notified THEN [st EXCEPT !.lg[b.name] = "idle"]
            ELSE IF pOk # b.name
            THEN [st EXCEPT !.bd[i].notified = TRUE,
                            !.p = PushTo(st.p, b.name, b.nextRespawn),
                            !.lg[b.name] = "sent"]
            ELSE [st EXCEPT !.p = PushFailed(st.p, b.name, b.nextRespawn),
                            !.lg[b.name] = "failed", !.run = FALSE,
                            !.nf = @ + 1]
       ELSE IF diffMin <= 0
       THEN [st EXCEPT !.bd[i].notified = FALSE, !.lg[b.name] = "reset"]
       ELSE [st EXCEPT !.lg[b.name] = "idle"]

RECURSIVE SendNotifications(_, _, _, _)
SendNotifications(st, i, t, pOk) ==
  IF i > Len(st.bd) THEN st
  ELSE SendNotifications(NotifierRecord(st, i, t, pOk), i + 1, t, pOk)

\* cron.schedule of bot B: loadBossData, then sendNotifications.  A failed
\* load is caught and leaves the registry of the tick before.
NotifierTick ==
  /\ variant = "botAB"
  /\ ~ticked
  /\ ticked' = TRUE
  /\ \E loadOk \in Outcomes(faults) : \E f \in TickFaults(faults + Cost(loadOk)) :
       LET loaded == IF loadOk THEN Load(sheet) ELSE bossDataB
           r == SendNotifications([bd |-> loaded, p |-> pushed, lg |-> NoLog,
                                   run |-> TRUE, nf |-> 0], 1, now, f.push)
       IN /\ f.save = NoName
          /\ f.push # NoName => r.nf > 0
          /\ bossDataB' = r.bd
          /\ pushed' = r.p
          /\ log' = r.lg
          /\ faults' = faults + Cost(loadOk) + r.nf
  /\ reply' = NoReply
  /\ UNCHANGED <<variant, now, notifyAll, bossData, sheet, cmds, inflight, writes>>

\* ------------------------------------------- list command of bot A (/王)
\* How far below the clock's zero a Date reaches, scaled to the model.
DateSpan == 100
\* The earliest instant a Date holds: a dayjs value moved below it is an
\* Invalid Date, written NaN here.
DateFloor == 0 - DateSpan

\* while (now.isAfter(resp)) { resp = resp.add(interval, "hour"); missedCount++ }
\* With a negative interval resp moves away from now until it is an Invalid
\* Date, for which isAfter is false.
RECURSIVE CatchUpLoop(_, _, _, _)
CatchUpLoop(resp, missed, iv, t) ==
  IF resp # NaN /\ t > resp
  THEN CatchUpLoop(IF resp + iv * Res < DateFloor THEN NaN ELSE resp + iv * Res,
                   missed + 1, iv, t)
  ELSE [resp |-> resp, missed |-> missed]

ListRec(b, t) ==
  IF b.nextRespawn = Null \/ Falsy(b.interval) THEN b
  ELSE LET r == CatchUpLoop(b.nextRespawn, b.missedCount, b.interval, t) IN
       [b EXCEPT !.nextRespawn = r.resp, !.missedCount = r.missed,
                 !.notified = FALSE]

ListUpdated(reg, t) ==
  \E i \in 1..Len(reg) :
     reg[i].nextRespawn # Null /\ ~Falsy(reg[i].interval)
     /\ t > reg[i].nextRespawn

\* The entries for which resp.toISOString() throws (Invalid Date): the throw
\* leaves the map callback, and the handler, before b.nextRespawn is assigned.
ListThrowsAt(reg, t) ==
  {i \in 1..Len(reg) : ListRec(reg[i], t).nextRespawn = NaN}

\* The registry after the map callback ran for the entries before the throw.
ListMap(reg, t) ==
  [i \in 1..Len(reg) |->
     IF \E k \in ListThrowsAt(reg, t) : k <= i THEN reg[i] ELSE ListRec(reg[i], t)]

\* remainder of JavaScript: the sign of the dividend
JsRem(a, b) == IF a >= 0 THEN a % b ELSE 0 - ((0 - a) % b)

Abs(a) == IF a >= 0 THEN a ELSE 0 - a

\* One line of /王 in index.js.  An overdue record shows |diff| + interval;
\* the sort key is the whole hours parsed back from the line, 999 when the
\* line shows none.
ListLine(b, t) ==
  IF b.nextRespawn = Null
  THEN [name |-> b.name, timed |-> FALSE, overdue |-> FALSE, h |-> 0, m |-> 0,
        missed |-> 0, key |-> 999]
  ELSE LET diff == DiffMinutes(b.nextRespawn, t)
           displayDiff == IF b.interval = NaN /\ diff <= 0 THEN NaN
                          ELSE IF diff <= 0 THEN Abs(diff) + b.interval
                          ELSE diff
           h == IF displayDiff = NaN THEN NaN ELSE displayDiff \div 60
           m == IF displayDiff = NaN THEN NaN ELSE Abs(JsRem(displayDiff, 60))
       IN [name |-> b.name, timed |-> TRUE, overdue |-> diff <= 0,
           h |-> h, m |-> m, missed |-> b.missedCount,
           key |-> IF h = NaN \/ h < 0 THEN 999 ELSE h]

\* One line of /王 in bot A, after the record was caught up; the sort key is
\* hours * 60 + minutes parsed back from the line, 9999 for a line without.
ListLineA(b, t) ==
  IF b.nextRespawn = Null \/ Falsy(b.interval)
  THEN [name |-> b.name, timed |-> FALSE, overdue |-> FALSE, h |-> 0, m |-> 0,
        missed |-> 0, key |-> 9999]
  ELSE LET diffMin == DiffMinutes(b.nextRespawn, t)
           h == diffMin \div 60
           m == JsRem(diffMin, 60)
       IN [name |-> b.name, timed |-> TRUE, overdue |-> FALSE,
           h |-> h, m |-> m, missed |-> b.missedCount,
           key |-> IF h < 0 \/ m < 0 THEN 9999 ELSE h * 60 + m]

\* Array.prototype.sort with the comparator a.key - b.key (stable)
RECURSIVE InsertByKey(_, _)
InsertByKey(sorted, x) ==
  IF sorted = <<>> THEN <<x>>
  ELSE IF sorted[Len(sorted)].key <= x.key THEN Append(sorted, x)
  ELSE Append(InsertByKey(SubSeq(sorted, 1, Len(sorted) - 1), x),
              sorted[Len(sorted)])

RECURSIVE SortByKey(_)
SortByKey(ls) ==
  IF ls = <<>> THEN <<>>
  ELSE InsertByKey(SortByKey(SubSeq(ls, 1, Len(ls) - 1)), ls[Len(ls)])

ListReply(v, reg, t) ==
  [Answer("list", "-") EXCEPT
     !.lines = SortByKey([i \in 1..Len(reg) |->
                            IF v = "botAB" THEN ListLineA(reg[i], t)
                            ELSE ListLine(reg[i], t)])]

\* /王: read-only in index.js; in bot A it rewrites every timed record and
\* saves when some record was advanced.
List ==
  /\ cmds < MaxCmds
  /\ cmds' = cmds + 1
  /\ log' = NoLog
  /\ IF variant = "botAB"
     THEN /\ bossData' = ListMap(bossData, now)
          /\ IF ListUpdated(bossData, now) /\ ListThrowsAt(bossData, now) = {}
             THEN \E ok \in Outcomes(faults) :
                    /\ sheet' = Save(bossData', sheet, ok)
                    /\ faults' = faults + Cost(ok)
             ELSE UNCHANGED <<sheet, faults>>
          /\ pushed' = KeepPushed(pushed, Load(sheet'))
     ELSE UNCHANGED <<bossData, sheet, pushed, faults>>
  /\ reply' = IF variant = "botAB" /\ ListThrowsAt(bossData, now) # {}
              THEN Answer("thrown", "-")
              ELSE ListReply(variant, bossData', now)
  /\ UNCHANGED <<variant, now, ticked, notifyAll, bossDataB, inflight, writes>>

\* ----------------------------------------------------- process and clock
\* The command bot starts again: app.listen loads the sheet into an empty
\* registry (a failed load leaves it empty) and the switch is on again.
Restart ==
  /\ \E loadOk \in Outcomes(faults) :
       /\ bossData' = IF loadOk THEN Load(sheet) ELSE <<>>
       /\ faults' = faults + Cost(loadOk)
  /\ notifyAll' = TRUE
  /\ pushed' = KeepPushed(pushed, Store(variant, bossData', sheet))
  /\ log' = NoLog
  /\ reply' = NoReply
  /\ UNCHANGED <<variant, now, ticked, sheet, bossDataB, inflight, writes, cmds>>

\* 1/Res minute passes.  The cron callback runs once in every minute, at
\* some instant of it; entering a new minute re-arms it.
Pass ==
  /\ now < MaxTime
  /\ (now + 1) % Res = 0 => ticked
  /\ now' = now + 1
  /\ ticked' = IF (now + 1) % Res = 0 THEN FALSE ELSE ticked
  /\ log' = NoLog
  /\ reply' = NoReply
  /\ UNCHANGED <<variant, notifyAll, bossData, sheet, bossDataB, inflight, writes, pushed, cmds,
               faults>>

Next ==
  \/ \E n \in Names, s \in IntervalInputs : SetInterval(n, s)
  \/ \E n \in Names, s \in RemainInputs : Respawn(n, s)
  \/ \E n \in Names : Delete(n)
  \/ \E v \in BOOLEAN : SetNotify(v)
  \/ List
  \/ SchedulerTick
  \/ NotifierTick
  \/ Restart
  \/ Pass

Spec == Init /\ [][Next]_vars

\* ------------------------------------------------ one command, any input
\* The command handlers on their own: one chat command is handled at Start
\* on a registry left by earlier runs, with the duration text drawn from
\* every "H", "H.M" and "H.MM" up to MaxH hours and from malformed texts.
MaxH == 3
Digit == 0..9
Fractions == {<<>>} \cup {<<a>> : a \in Digit} \cup {<<a, b>> : a, b \in Digit}
DurInputs ==
  {Dur(ip, fd) : ip \in 0..MaxH, fd \in Fractions}
  \cup {MinusDur(ip, fd) : ip \in 0..1, fd \in {<<>>, <<3, 0>>, <<0, 5>>}}
  \cup {EmptyFraction(ip) : ip \in 0..1}
  \cup {NotNumber}

\* A record of an 8-hour boss that was rolled forward twice; its reminder
\* went out when the target is 5 minutes ahead.
CmdRow(n, t) ==
  [name |-> n, interval |-> 480, nextRespawn |-> t,
   notified |-> (t = Start + 5 * Res), notifyDate |-> "ALL",
   missedCount |-> IF t = Null THEN 0 ELSE 2]
\* A record made by "/設定 n 0"
ZeroRow(n) ==
  [name |-> n, interval |-> 0, nextRespawn |-> Null, notified |-> FALSE,
   notifyDate |-> "ALL", missedCount |-> 0]
CmdTargets == {Null, Start - 5 * Res, Start + 5 * Res, Start + 100 * Res}
CmdSheets ==
  {ra \o rb :
     ra \in {<<>>, <<ZeroRow("A")>>} \cup {<<CmdRow("A", t)>> : t \in CmdTargets},
     rb \in {<<>>, <<CmdRow("B", Null)>>, <<CmdRow("B", Start + 90 * Res)>>}}

InitCmd ==
  /\ variant \in Variants
  /\ now = Start
  /\ ticked = FALSE
  /\ notifyAll = TRUE
  /\ sheet \in CmdSheets
  /\ bossData = Load(sheet)
  /\ bossDataB = <<>>
  /\ pushed = NoPush
  /\ log = NoLog
  /\ cmds = 0
  /\ faults = 0
  /\ reply = NoReply
  /\ inflight = NoFlight
  /\ writes = <<>>

CmdSetInterval == \E n \in Names, s \in DurInputs : cmds = 0 /\ SetInterval(n, s)
CmdRespawn == \E n \in Names, s \in DurInputs : cmds = 0 /\ Respawn(n, s)
CmdList == cmds = 0 /\ List

NextCmd ==
  \/ CmdSetInterval
  \/ CmdRespawn
  \/ CmdList

SpecCmd == InitCmd /\ [][NextCmd]_vars

\* ------------------------------- the lastDeath bot (part_004, lines 1-237)
\* Its records hold interval and lastDeath (the time of the next respawn),
\* kept here in the fields interval, in hundredths of an hour, and
\* nextRespawn.
\* parseFloat(parts[2]) hours
LegacyHours(s) ==
  IF s.ip = NaN THEN NaN
  ELSE (IF s.neg THEN 0 - 1 ELSE 1)
       * (s.ip * 100 + (DigitsVal(s.fd) * 100) \div Pow10(Len(s.fd)))

\* minutes = Math.round(remain * 60)
LegacyMinutes(s) ==
  IF s.ip = NaN THEN NaN
  ELSE RoundDiv((IF s.neg THEN 0 - 1 ELSE 1)
                * (s.ip * Pow10(Len(s.fd)) + DigitsVal(s.fd)) * 60,
                Pow10(Len(s.fd)))

LegacyRow(n, iv, t) ==
  [name |-> n, interval |-> iv, nextRespawn |-> t, notified |-> FALSE,
   notifyDate |-> "ALL", missedCount |-> 0]
LegacySheets ==
  {ra \o rb :
     ra \in {<<>>, <<LegacyRow("A", 800, Null)>>,
             <<LegacyRow("A", 800, Start + 5 * Res)>>,
             <<LegacyRow("A", 800, Start + 100 * Res)>>},
     rb \in {<<>>, <<LegacyRow("B", 800, Start + 90 * Res)>>}}

InitLegacy ==
  /\ variant = "legacy"
  /\ now = Start
  /\ ticked = FALSE
  /\ notifyAll = TRUE
  /\ sheet \in LegacySheets
  /\ bossData = Load(sheet)
  /\ bossDataB = <<>>
  /\ pushed = NoPush
  /\ log = NoLog
  /\ cmds = 0
  /\ faults = 0
  /\ reply = NoReply
  /\ inflight = NoFlight
  /\ writes = <<>>

\* /設定 name hours
LegacySetInterval(n, s) ==
  /\ cmds < MaxCmds
  /\ cmds' = cmds + 1
  /\ bossData' = Put(bossData,
                     IF Has(bossData, n)
                     THEN [Get(bossData, n) EXCEPT !.interval = LegacyHours(s)]
                     ELSE LegacyRow(n, LegacyHours(s), Null))
  /\ \E ok \in Outcomes(faults) :
       /\ sheet' = Save(bossData', sheet, ok)
       /\ faults' = faults + Cost(ok)
  /\ reply' = [Answer("intervalSet", n) EXCEPT !.h = LegacyHours(s)]
  /\ UNCHANGED <<variant, now, ticked, notifyAll, bossDataB, inflight, writes, pushed, log>>

\* /重生 name remaining: a missing record is created with interval 0; for a
\* text that is no number toISOString throws after that.
LegacyRespawn(n, s) ==
  /\ cmds < MaxCmds
  /\ cmds' = cmds + 1
  /\ LET reg == IF Has(bossData, n) THEN bossData
                ELSE Append(bossData, LegacyRow(n, 0, Null))
     IN IF LegacyMinutes(s) = NaN
        THEN /\ bossData' = reg
             /\ reply' = Answer("thrown", n)
             /\ UNCHANGED <<sheet, faults>>
        ELSE /\ bossData' = Put(reg, [Get(reg, n) EXCEPT
                                       !.nextRespawn = now + LegacyMinutes(s) * Res])
             /\ \E ok \in Outcomes(faults) :
                  /\ sheet' = Save(bossData', sheet, ok)
                  /\ faults' = faults + Cost(ok)
             /\ reply' = [Answer("respawnSet", n) EXCEPT
                            !.at = now + LegacyMinutes(s) * Res]
  /\ UNCHANGED <<variant, now, ticked, notifyAll, bossDataB, inflight, writes, pushed, log>>

\* One line of /王: the remaining minutes, never below 0; the comparator
\* dayjs(b.lastDeath).diff(dayjs(a.lastDeath)) puts the latest target first.
LegacyLine(b, t) ==
  [name |-> b.name, timed |-> TRUE, overdue |-> FALSE, h |-> 0,
   m |-> IF DiffMinutes(b.nextRespawn, t) > 0
         THEN DiffMinutes(b.nextRespawn, t) ELSE 0,
   missed |-> 0, key |-> 0 - b.nextRespawn]

\* /王: the records with a lastDeath, sorted
LegacyList ==
  /\ cmds < MaxCmds
  /\ cmds' = cmds + 1
  /\ LET timed == SelectSeq(bossData, LAMBDA b : b.nextRespawn # Null) IN
     reply' = [Answer("list", "-") EXCEPT
                 !.lines = SortByKey([i \in 1..Len(timed) |->
                                        LegacyLine(timed[i], now)])]
  /\ UNCHANGED <<variant, now, ticked, notifyAll, bossData, sheet, bossDataB, inflight, writes,
                 pushed, log, faults>>

NextLegacy ==
  \/ \E n \in Names, s \in DurInputs : cmds = 0 /\ LegacySetInterval(n, s)
  \/ \E n \in Names, s \in DurInputs : cmds = 0 /\ LegacyRespawn(n, s)
  \/ cmds = 0 /\ LegacyList

SpecLegacy == InitLegacy /\ [][NextLegacy]_vars

\* ------------------------------------------- the parsers of a duration text
\* ParseHM above is index.js's parseFloat / Math.floor / Math.round, computed
\* exactly: for two fraction digits and hours below 2^31 the doubles of
\* JavaScript round to the same minutes.
\* part_004 (validating bot): split("."), parseInt, padEnd(2, "0")
ParsePadEnd(s) ==
  IF s.ip = NaN THEN [h |-> NaN, m |-> 0]
  ELSE [h |-> IF s.neg THEN 0 - s.ip ELSE s.ip,
        m |-> IF Len(s.fd) = 0 THEN 0
              ELSE IF Len(s.fd) = 1 THEN 10 * DigitsVal(s.fd)
              ELSE DigitsVal(s.fd)]

\* part_001: remainStr.split(".").map(Number); a missing second part is
\* undefined, which every later computation turns into NaN
ParseSplit(s) ==
  IF s.ip = NaN THEN [h |-> NaN, m |-> NaN]
  ELSE [h |-> IF s.neg THEN 0 - s.ip ELSE s.ip,
        m |-> IF ~s.dot THEN NaN ELSE DigitsVal(s.fd)]

\* A text somebody typed as the duration of a command, and what a parser
\* makes of it.
Typed(s) == [Answer("typed", NoName) EXCEPT !.lines = <<s>>]
Parsed(kind, hm) == [Answer(kind, NoName) EXCEPT !.h = hm.h, !.m = hm.m]

InitParse ==
  /\ variant = "parser"
  /\ now = Start
  /\ ticked = FALSE
  /\ notifyAll = TRUE
  /\ sheet = <<>>
  /\ bossData = <<>>
  /\ bossDataB = <<>>
  /\ pushed = NoPush
  /\ log = NoLog
  /\ cmds = 0
  /\ faults = 0
  /\ reply \in {Typed(s) : s \in DurInputs}
  /\ inflight = NoFlight
  /\ writes = <<>>

ParseFloatStep ==
  /\ reply.kind = "typed"
  /\ reply' = Parsed("parsedFloat", ParseHM(reply.lines[1]))
  /\ UNCHANGED <<variant, now, ticked, notifyAll, bossData, sheet, bossDataB, inflight, writes,
                 pushed, log, cmds, faults>>

ParsePadEndStep ==
  /\ reply.kind = "typed"
  /\ reply' = Parsed("parsedPadEnd", ParsePadEnd(reply.lines[1]))
  /\ UNCHANGED <<variant, now, ticked, notifyAll, bossData, sheet, bossDataB, inflight, writes,
                 pushed, log, cmds, faults>>

ParseSplitStep ==
  /\ reply.kind = "typed"
  /\ reply' = Parsed("parsedSplit", ParseSplit(reply.lines[1]))
  /\ UNCHANGED <<variant, now, ticked, notifyAll, bossData, sheet, bossDataB, inflight, writes,
                 pushed, log, cmds, faults>>

NextParse == ParseFloatStep \/ ParsePadEndStep \/ ParseSplitStep

SpecParse == InitParse /\ [][NextParse]_vars

\* ------------------------------------------------- records with a day mask
\* The program started on sheets whose rows carry a notifyDate other than
\* "ALL", as /通知 of bot A (part_004 887-938) writes them: "NONE", or days.
RowMasked(n, nd) == [RowDue(n) EXCEPT !.notifyDate = nd]
MaskSheets ==
  {<<RowMasked("A", "NONE")>>,
   <<RowMasked("A", "TUE"), RowMasked("B", "MON")>>}

InitMask ==
  /\ variant \in Variants
  /\ now = Start
  /\ ticked = FALSE
  /\ notifyAll = TRUE
  /\ sheet \in MaskSheets
  /\ bossData = Load(sheet)
  /\ bossDataB = <<>>
  /\ pushed = NoPush
  /\ log = NoLog
  /\ cmds = 0
  /\ faults = 0
  /\ reply = NoReply
  /\ inflight = NoFlight
  /\ writes = <<>>

SpecMask == InitMask /\ [][Next]_vars

\* ------------------------------------- the boss.json bot (part_003, 1-197)
\* Its registry is written with fs.writeFileSync, which throws when the
\* write fails; sheet holds the entries of boss.json.  parseFloat(hours) hours
\* and floor / round((remain - h) * 60) are both kept as whole minutes.
FileMinutes(s) ==
  IF s.ip = NaN THEN NaN
  ELSE 60 * s.ip + RoundDiv(DigitsVal(s.fd) * 60, Pow10(Len(s.fd)))

FileInputs == {Dur(0, <<2>>), Dur(0, <<0, 5>>)}

InitFile ==
  /\ variant = "file"
  /\ now = Start
  /\ ticked = FALSE
  /\ notifyAll = TRUE
  /\ sheet \in InitialSheets
  /\ bossData = sheet
  /\ bossDataB = <<>>
  /\ pushed = NoPush
  /\ log = NoLog
  /\ cmds = 0
  /\ faults = 0
  /\ reply = NoReply
  /\ inflight = NoFlight
  /\ writes = <<>>

\* saveBossData() at the end of a handler: a throw leaves the file as it was
\* and skips the reply; the webhook's catch answers 500.
FileSave(kind, n) ==
  \E ok \in Outcomes(faults) :
    /\ sheet' = IF ok THEN bossData' ELSE sheet
    /\ faults' = faults + Cost(ok)
    /\ reply' = Answer(IF ok THEN kind ELSE "saveThrown", n)

\* /設定 name hours
FileSetInterval(n, s) ==
  /\ variant = "file"
  /\ cmds < MaxCmds
  /\ cmds' = cmds + 1
  /\ bossData' = Put(bossData,
                     IF Has(bossData, n)
                     THEN [Get(bossData, n) EXCEPT !.interval = FileMinutes(s)]
                     ELSE [name |-> n, interval |-> FileMinutes(s),
                           nextRespawn |-> Null, notified |-> FALSE,
                           notifyDate |-> "ALL", missedCount |-> 0])
  /\ FileSave("intervalSet", n)
  /\ pushed' = KeepPushed(pushed, bossData')
  /\ log' = NoLog
  /\ UNCHANGED <<variant, now, ticked, notifyAll, bossDataB, inflight, writes>>

\* /重生 name remaining
FileRespawn(n, s) ==
  /\ variant = "file"
  /\ cmds < MaxCmds
  /\ cmds' = cmds + 1
  /\ log' = NoLog
  /\ IF ~Configured(bossData, n)
     THEN /\ reply' = Answer("configureFirst", n)
          /\ UNCHANGED <<bossData, sheet, pushed, faults>>
     ELSE IF FileMinutes(s) = NaN
     THEN /\ reply' = Answer("thrown", n)
          /\ UNCHANGED <<bossData, sheet, pushed, faults>>
     ELSE /\ bossData' = Put(bossData,
                             [Get(bossData, n) EXCEPT
                                !.nextRespawn = now + FileMinutes(s) * Res,
                                !.notified = FALSE])
          /\ FileSave("respawnSet", n)
          /\ pushed' = KeepPushed([pushed EXCEPT ![n] = NoPush[n]], bossData')
  /\ UNCHANGED <<variant, now, ticked, notifyAll, bossDataB, inflight, writes>>

\* /刪除 name
FileDelete(n) ==
  /\ variant = "file"
  /\ cmds < MaxCmds
  /\ cmds' = cmds + 1
  /\ log' = NoLog
  /\ IF Has(bossData, n)
     THEN /\ bossData' = Remove(bossData, n)
          /\ FileSave("deleted", n)
          /\ pushed' = KeepPushed(pushed, bossData')
     ELSE /\ reply' = Answer("absent", n)
          /\ UNCHANGED <<bossData, sheet, pushed, faults>>
  /\ UNCHANGED <<variant, now, ticked, notifyAll, bossDataB, inflight, writes>>

\* The body of the cron loop for entry i.  The save after a push sits inside
\* the try, so its throw is caught; the save of the catch-up branch is not,
\* and its throw leaves the loop (st.run = FALSE).
FileRecord(st, i, t, pOk, sOk) ==
  LET b == st.bd[i] IN
  IF ~st.run THEN st
  ELSE IF b.nextRespawn = Null \/ Falsy(b.interval)
  THEN [st EXCEPT !.lg[b.name] = "skip"]
  ELSE LET diff == DiffMinutes(b.nextRespawn, t) IN
       IF diff <= NotifyLead /\ diff > LeadFloor /\ ~b.notified
       THEN IF pOk = b.name
            THEN [st EXCEPT !.p = PushFailed(st.p, b.name, b.nextRespawn),
                            !.lg[b.name] = "failed", !.nf = @ + 1]
            ELSE LET bd1 == [st.bd EXCEPT ![i].notified = TRUE] IN
                 [st EXCEPT !.bd = bd1,
                            !.sh = IF sOk = b.name THEN @ ELSE bd1,
                            !.p = PushTo(st.p, b.name, b.nextRespawn),
                            !.lg[b.name] = "sent",
                            !.nf = IF sOk = b.name THEN @ + 1 ELSE @]
       ELSE IF diff <= 0
       THEN LET bd1 == [st.bd EXCEPT
                          ![i].nextRespawn = b.nextRespawn + b.interval * Res,
                          ![i].notified = FALSE] IN
            IF sOk = b.name
            THEN [st EXCEPT !.bd = bd1, !.lg[b.name] = "saveThrown",
                            !.run = FALSE, !.nf = @ + 1]
            ELSE [st EXCEPT !.bd = bd1, !.sh = bd1, !.lg[b.name] = "caught"]
       ELSE [st EXCEPT !.lg[b.name] = "idle"]

RECURSIVE FileLoop(_, _, _, _, _)
FileLoop(st, i, t, pOk, sOk) ==
  IF i > Len(st.bd) THEN st
  ELSE FileLoop(FileRecord(st, i, t, pOk, sOk), i + 1, t, pOk, sOk)

\* cron.schedule of the boss.json bot.  A throw out of the async callback is
\* an unhandled rejection: depending on the Node version the process goes on
\* or exits ("fileDown").
FileTick ==
  /\ variant = "file"
  /\ ~ticked
  /\ ticked' = TRUE
  /\ \E f \in TickFaults(faults) :
       LET r == FileLoop([bd |-> bossData, sh |-> sheet, p |-> pushed,
                          lg |-> NoLog, run |-> TRUE, nf |-> 0],
                         1, now, f.push, f.save)
       IN /\ f.push = NoName /\ f.save = NoName => r.nf = 0
          /\ f.push # NoName \/ f.save # NoName => r.nf > 0
          /\ bossData' = r.bd
          /\ sheet' = r.sh
          /\ pushed' = KeepPushed(r.p, r.bd)
          /\ log' = r.lg
          /\ faults' = faults + r.nf
          /\ variant' \in IF r.run THEN {"file"} ELSE {"file", "fileDown"}
  /\ reply' = NoReply
  /\ UNCHANGED <<now, notifyAll, bossDataB, inflight, writes, cmds>>

NextFile ==
  \/ \E n \in Names, s \in FileInputs : FileSetInterval(n, s)
  \/ \E n \in Names, s \in FileInputs : FileRespawn(n, s)
  \/ \E n \in Names : FileDelete(n)
  \/ FileTick
  \/ Pass

SpecFile == InitFile /\ [][NextFile]_vars

\* ------------------------------------- the SQLite bot (part_002, 1-159)
\* Its registry is the table boss_status, kept in bossData with the columns
\* interval_hours (as minutes), last_dead_iso, next_spawn_iso and
\* alerted_10min under the names interval, lastDead, nextRespawn, notified.
SqlRow(n, iv, dead, t) ==
  [name |-> n, interval |-> iv, lastDead |-> dead, nextRespawn |-> t,
   notified |-> FALSE, notifyDate |-> "ALL", missedCount |-> 0]

\* Number(hours) hours as minutes, for the texts "0.2" and "0.1"
SqlInputs == {Dur(0, <<2>>), Dur(0, <<1>>)}
SqlMinutes(s) == 60 * s.ip + (DigitsVal(s.fd) * 60) \div Pow10(Len(s.fd))

\* minutes before now that a /死亡 report names as the time of death
DeathAgo == {0, 2}

SqlTables == {<<>>, <<SqlRow("A", 12, Start - Res, Start + 11 * Res)>>}

InitSql ==
  /\ variant = "sql"
  /\ now = Start
  /\ ticked = FALSE
  /\ notifyAll = TRUE
  /\ sheet = <<>>
  /\ bossData \in SqlTables
  /\ bossDataB = <<>>
  /\ pushed = NoPush
  /\ log = NoLog
  /\ cmds = 0
  /\ faults = 0
  /\ reply = NoReply
  /\ inflight = NoFlight
  /\ writes = <<>>

\* /設定 boss hours: INSERT with next_spawn_iso = now + hours, or on
\* conflict UPDATE of interval_hours alone
SqlSetInterval(n, s) ==
  /\ variant = "sql"
  /\ cmds < MaxCmds
  /\ cmds' = cmds + 1
  /\ bossData' = Put(bossData,
                     IF Has(bossData, n)
                     THEN [Get(bossData, n) EXCEPT !.interval = SqlMinutes(s)]
                     ELSE SqlRow(n, SqlMinutes(s), Null,
                                 now + SqlMinutes(s) * Res))
  /\ pushed' = KeepPushed(pushed, bossData')
  /\ log' = NoLog
  /\ reply' = Answer("intervalSet", n)
  /\ UNCHANGED <<variant, now, ticked, notifyAll, sheet, bossDataB, inflight, writes, faults>>

\* /死亡 boss HH:mm
SqlDeath(n, ago) ==
  /\ variant = "sql"
  /\ cmds < MaxCmds
  /\ cmds' = cmds + 1
  /\ log' = NoLog
  /\ IF ~Has(bossData, n)
     THEN /\ reply' = Answer("configureFirst", n)
          /\ UNCHANGED <<bossData, pushed>>
     ELSE LET dead == now - ago * Res
              next == dead + Get(bossData, n).interval * Res
          IN /\ bossData' = Put(bossData,
                                [Get(bossData, n) EXCEPT
                                   !.lastDead = dead, !.nextRespawn = next,
                                   !.notified = FALSE])
             /\ pushed' = KeepPushed([pushed EXCEPT ![n] = NoPush[n]], bossData')
             /\ reply' = [Answer("respawnSet", n) EXCEPT !.at = next]
  /\ UNCHANGED <<variant, now, ticked, notifyAll, sheet, bossDataB, inflight, writes, faults>>

\* /修改間隔 boss hours
SqlModifyInterval(n, s) ==
  /\ variant = "sql"
  /\ cmds < MaxCmds
  /\ cmds' = cmds + 1
  /\ log' = NoLog
  /\ IF ~Has(bossData, n)
     THEN /\ reply' = Answer("absent", n)
          /\ UNCHANGED <<bossData, pushed>>
     ELSE LET b == Get(bossData, n)
              next == (IF b.lastDead # Null THEN b.lastDead ELSE now)
                      + SqlMinutes(s) * Res
          IN /\ bossData' = Put(bossData,
                                [b EXCEPT !.interval = SqlMinutes(s),
                                          !.nextRespawn = next,
                                          !.notified = FALSE])
             /\ pushed' = KeepPushed(pushed, bossData')
             /\ reply' = Answer("intervalModified", n)
  /\ UNCHANGED <<variant, now, ticked, notifyAll, sheet, bossDataB, inflight, writes, faults>>

\* The body of the cron loop for row i; the push is awaited with no catch.
SqlRecord(st, i, t, pOk) ==
  LET b == st.bd[i] IN
  IF ~st.run THEN st
  ELSE IF b.nextRespawn = Null THEN [st EXCEPT !.lg[b.name] = "skip"]
  ELSE LET diffMinutes == DiffMinutes(b.nextRespawn, t) IN
       IF diffMinutes <= NotifyLead /\ diffMinutes > 0 /\ ~b.notified
       THEN IF pOk = b.name
            THEN [st EXCEPT !.p = PushFailed(st.p, b.name, b.nextRespawn),
                            !.lg[b.name] = "failed", !.run = FALSE,
                            !.nf = @ + 1]
            ELSE [st EXCEPT !.bd[i].notified = TRUE,
                            !.p = PushTo(st.p, b.name, b.nextRespawn),
                            !.lg[b.name] = "sent"]
       ELSE [st EXCEPT !.lg[b.name] = "idle"]

RECURSIVE SqlLoop(_, _, _, _)
SqlLoop(st, i, t, pOk) ==
  IF i > Len(st.bd) THEN st
  ELSE SqlLoop(SqlRecord(st, i, t, pOk), i + 1, t, pOk)

\* cron.schedule('*/1 * * * *', ...)
SqlTick ==
  /\ variant = "sql"
  /\ ~ticked
  /\ ticked' = TRUE
  /\ \E f \in TickFaults(faults) :
       LET r == SqlLoop([bd |-> bossData, p |-> pushed, lg |-> NoLog,
                         run |-> TRUE, nf |-> 0], 1, now, f.push)
       IN /\ f.save = NoName
          /\ f.push = NoName => r.nf = 0
          /\ f.push # NoName => r.nf > 0
          /\ bossData' = r.bd
          /\ pushed' = KeepPushed(r.p, r.bd)
          /\ log' = r.lg
          /\ faults' = faults + r.nf
  /\ reply' = NoReply
  /\ UNCHANGED <<variant, now, notifyAll, sheet, bossDataB, inflight, writes, cmds>>

NextSql ==
  \/ \E n \in Names, s \in SqlInputs : SqlSetInterval(n, s)
  \/ \E n \in Names, ago \in DeathAgo : SqlDeath(n, ago)
  \/ \E n \in Names, s \in SqlInputs : SqlModifyInterval(n, s)
  \/ SqlTick
  \/ Pass

SpecSql == InitSql /\ [][NextSql]_vars

\* --------------------------- the cron callback of index.js with its await
\* The callback is an async function: at await client.pushMessage it is
\* suspended and the event loop may run a command handler before it goes on
\* with b.notified = true on the record object it took from bossData.  The
\* steps below split the callback at that await (the awaits of the saves
\* are taken as immediate); one command is handled in a behaviour.
NeedsPush(b, t, na) ==
  /\ b.nextRespawn # Null /\ ~Falsy(b.interval)
  /\ DayPermits(b.notifyDate)
  /\ DiffMinutes(b.nextRespawn, t) <= NotifyLead
  /\ DiffMinutes(b.nextRespawn, t) > LeadFloor
  /\ ~b.notified /\ na

\* The loop over the entries i .. k-1, none of which is pushed for.
RECURSIVE SchedulerPrefix(_, _, _, _, _, _)
SchedulerPrefix(st, i, k, t, na, fromNow) ==
  IF i >= k THEN st
  ELSE SchedulerPrefix(SchedulerRecord(st, i, t, na, NoName, NoName, fromNow),
                       i + 1, k, t, na, fromNow)

\* The loop over the entries that were behind the awaited one; an entry
\* whose name was deleted meanwhile is an object outside the registry.
RECURSIVE SchedulerRest(_, _, _, _, _)
SchedulerRest(st, names, t, na, fromNow) ==
  IF names = <<>> THEN st
  ELSE SchedulerRest(IF Has(st.bd, Head(names))
                     THEN SchedulerRecord(st, Idx(st.bd, Head(names)), t, na,
                                          NoName, NoName, fromNow)
                     ELSE st,
                     Tail(names), t, na, fromNow)

InitAsync ==
  /\ variant \in {"sheet", "sheetNow"}
  /\ now = Start
  /\ ticked = FALSE
  /\ notifyAll = TRUE
  /\ sheet \in InitialSheets
  /\ bossData = Load(sheet)
  /\ bossDataB = <<>>
  /\ pushed = NoPush
  /\ log = NoLog
  /\ cmds = 0
  /\ faults = 0
  /\ reply = NoReply
  /\ inflight = NoFlight
  /\ writes = <<>>

\* The callback runs up to the first entry it pushes for and awaits the push.
AsyncTickStart ==
  /\ variant \in {"sheet", "sheetNow"}
  /\ ~ticked
  /\ inflight = NoFlight
  /\ writes = <<>>
  /\ \E k \in 1..Len(bossData) :
       /\ NeedsPush(bossData[k], now, notifyAll)
       /\ \A j \in 1..(k - 1) : ~NeedsPush(bossData[j], now, notifyAll)
       /\ LET r == SchedulerPrefix([bd |-> bossData, sh |-> sheet, p |-> pushed,
                                    lg |-> NoLog, nf |-> 0],
                                   1, k, now, notifyAll, variant = "sheetNow")
          IN /\ bossData' = r.bd
             /\ sheet' = r.sh
             /\ pushed' = KeepPushed(r.p, r.bd)
             /\ log' = r.lg
             /\ inflight' = [name |-> bossData[k].name,
                             target |-> bossData[k].nextRespawn,
                             rest |-> [j \in 1..(Len(bossData) - k) |->
                                         bossData[k + j].name]]
  /\ ticked' = TRUE
  /\ reply' = NoReply
  /\ UNCHANGED <<variant, now, notifyAll, bossDataB, cmds, faults, writes>>

\* The push settles: on success b.notified = true and the save, on a
\* rejection the catch; then the entries that were left.
AsyncPushDone ==
  /\ inflight # NoFlight
  /\ \E ok \in Outcomes(faults) :
       LET n == inflight.name
           reg1 == IF ok /\ Has(bossData, n)
                   THEN Put(bossData, [Get(bossData, n) EXCEPT !.notified = TRUE])
                   ELSE bossData
           r == SchedulerRest([bd |-> reg1,
                               sh |-> IF ok THEN Save(reg1, sheet, TRUE) ELSE sheet,
                               p  |-> IF ok THEN PushTo(pushed, n, inflight.target)
                                      ELSE PushFailed(pushed, n, inflight.target),
                               lg |-> [log EXCEPT ![n] = IF ok THEN "sent" ELSE "failed"],
                               nf |-> 0],
                              inflight.rest, now, notifyAll, variant = "sheetNow")
       IN /\ bossData' = r.bd
          /\ sheet' = r.sh
          /\ pushed' = r.p
          /\ log' = r.lg
          /\ faults' = faults + Cost(ok)
  /\ inflight' = NoFlight
  /\ reply' = NoReply
  /\ UNCHANGED <<variant, now, ticked, notifyAll, bossDataB, cmds, writes>>

\* A run of the callback that pushes for no entry never awaits a push.
AsyncTickPlain ==
  /\ inflight = NoFlight
  /\ writes = <<>>
  /\ \A k \in 1..Len(bossData) : ~NeedsPush(bossData[k], now, notifyAll)
  /\ SchedulerTick

NextAsync ==
  \/ AsyncTickStart
  \/ AsyncPushDone
  \/ AsyncTickPlain
  \/ \E n \in Names, s \in IntervalInputs : cmds = 0 /\ SetInterval(n, s)
  \/ \E n \in Names, s \in RemainInputs : cmds = 0 /\ Respawn(n, s)
  \/ \E n \in Names : cmds = 0 /\ Delete(n)
  \/ Pass

SpecAsync == InitAsync /\ [][NextAsync]_vars

\* ------------------------------- saves in flight (index.js, saveBossDataToSheet)
\* saveBossDataToSheet builds its rows from bossData when it is called and
\* then awaits values.update.  A handler that awaits its save leaves the
\* event loop to the next event, so requests of several handlers are under
\* way together and the Sheets service applies them in the order in which
\* they reach it.  Here every request is accepted.
MaxInFlight == 2

InitWrites ==
  /\ variant = "sheet"
  /\ now = Start
  /\ ticked = FALSE
  /\ notifyAll = TRUE
  /\ sheet \in InitialSheets
  /\ bossData = Load(sheet)
  /\ bossDataB = <<>>
  /\ pushed = NoPush
  /\ log = NoLog
  /\ cmds = 0
  /\ faults = 0
  /\ reply = NoReply
  /\ inflight = NoFlight
  /\ writes = <<>>

\* /設定 up to its await saveBossDataToSheet()
IssueSetInterval(n, s) ==
  /\ cmds < MaxInFlight
  /\ cmds' = cmds + 1
  /\ bossData' = Put(bossData, SetIntervalRec(bossData, n, s))
  /\ writes' = Append(writes, bossData')
  /\ pushed' = KeepPushed(pushed, bossData')
  /\ log' = NoLog
  /\ reply' = [Answer("intervalSet", n) EXCEPT !.h = ParseHM(s).h,
                                              !.m = ParseHM(s).m]
  /\ UNCHANGED <<variant, now, ticked, notifyAll, sheet, bossDataB, faults,
                 inflight>>

\* /重生 up to its await saveBossDataToSheet()
IssueRespawn(n, s) ==
  /\ cmds < MaxInFlight
  /\ cmds' = cmds + 1
  /\ log' = NoLog
  /\ IF ~Configured(bossData, n)
     THEN /\ reply' = Answer("configureFirst", n)
          /\ UNCHANGED <<bossData, writes, pushed>>
     ELSE /\ bossData' = Put(bossData, RespawnRec(Get(bossData, n), now, s))
          /\ writes' = Append(writes, bossData')
          /\ pushed' = KeepPushed([pushed EXCEPT ![n] = NoPush[n]], bossData')
          /\ reply' = [Answer("respawnSet", n) EXCEPT
                         !.at = Get(bossData', n).nextRespawn]
  /\ UNCHANGED <<variant, now, ticked, notifyAll, sheet, bossDataB, faults,
                 inflight>>

\* /刪除 up to its await saveBossDataToSheet()
IssueDelete(n) ==
  /\ cmds < MaxInFlight
  /\ cmds' = cmds + 1
  /\ log' = NoLog
  /\ IF Has(bossData, n)
     THEN /\ bossData' = Remove(bossData, n)
          /\ writes' = Append(writes, bossData')
          /\ pushed' = KeepPushed(pushed, bossData')
          /\ reply' = Answer("deleted", n)
     ELSE /\ reply' = Answer("absent", n)
          /\ UNCHANGED <<bossData, writes, pushed>>
  /\ UNCHANGED <<variant, now, ticked, notifyAll, sheet, bossDataB, faults,
                 inflight>>

\* One of the requests under way is applied to the sheet.
WriteDone ==
  \E i \in 1..Len(writes) :
     /\ sheet' = Save(writes[i], sheet, TRUE)
     /\ writes' = SubSeq(writes, 1, i - 1) \o SubSeq(writes, i + 1, Len(writes))
     /\ reply' = NoReply
     /\ UNCHANGED <<variant, now, ticked, notifyAll, bossData, bossDataB,
                    pushed, log, cmds, faults, inflight>>

\* A run of the cron callback that finds nothing to push and nothing overdue.
QuietTick ==
  /\ \A k \in 1..Len(bossData) :
        /\ ~NeedsPush(bossData[k], now, notifyAll)
        /\ (bossData[k].nextRespawn # Null /\ ~Falsy(bossData[k].interval))
           => DiffMinutes(bossData[k].nextRespawn, now) > 0
  /\ SchedulerTick

NextWrites ==
  \/ \E n \in Names, s \in IntervalInputs : IssueSetInterval(n, s)
  \/ \E n \in Names, s \in RemainInputs : IssueRespawn(n, s)
  \/ \E n \in Names : IssueDelete(n)
  \/ WriteDone
  \/ QuietTick
  \/ Pass

SpecWrites == InitWrites /\ [][NextWrites]_vars

\* --------------------------------- the first SQLite bot (part_000, 1-161)
\* Its table boss_status has the columns respawn_hours (kept as minutes),
\* death_time_iso and next_spawn_iso; it has no alert column and no minute
\* cron (its only cron job runs at midnight, outside the time modelled).
\* parseInt(hours) hours as minutes, for the texts "1", "2" and "abc"
OldInputs == {Dur(1, <<>>), Dur(2, <<>>), NotNumber}
OldMinutes(s) == IF s.ip = NaN THEN NaN ELSE 60 * s.ip

OldTables == {<<>>, <<SqlRow("A", 60, Start - Res, Start + 59 * Res)>>}

InitOld ==
  /\ variant = "sqlOld"
  /\ now = Start
  /\ ticked = FALSE
  /\ notifyAll = TRUE
  /\ sheet = <<>>
  /\ bossData \in OldTables
  /\ bossDataB = <<>>
  /\ pushed = NoPush
  /\ log = NoLog
  /\ cmds = 0
  /\ faults = 0
  /\ reply = NoReply
  /\ inflight = NoFlight
  /\ writes = <<>>

\* /設定 boss hours: INSERT OR REPLACE ... VALUES (?, ?, NULL, NULL)
OldSetInterval(n, s) ==
  /\ variant = "sqlOld"
  /\ cmds < MaxCmds
  /\ cmds' = cmds + 1
  /\ log' = NoLog
  /\ IF OldMinutes(s) = NaN
     THEN /\ reply' = Answer("notNumber", n)
          /\ UNCHANGED bossData
     ELSE /\ bossData' = Append(Remove(bossData, n),
                                SqlRow(n, OldMinutes(s), Null, Null))
          /\ reply' = Answer("intervalSet", n)
  /\ UNCHANGED <<variant, now, ticked, notifyAll, sheet, bossDataB, pushed,
                 faults, inflight, writes>>

\* /死亡 boss HH:mm
OldDeath(n, ago) ==
  /\ variant = "sqlOld"
  /\ cmds < MaxCmds
  /\ cmds' = cmds + 1
  /\ log' = NoLog
  /\ IF ~Has(bossData, n)
     THEN /\ reply' = Answer("configureFirst", n)
          /\ UNCHANGED bossData
     ELSE LET dead == now - ago * Res
              next == dead + Get(bossData, n).interval * Res
          IN /\ bossData' = Put(bossData,
                                [Get(bossData, n) EXCEPT
                                   !.lastDead = dead, !.nextRespawn = next])
             /\ reply' = [Answer("respawnSet", n) EXCEPT !.at = next]
  /\ UNCHANGED <<variant, now, ticked, notifyAll, sheet, bossDataB, pushed,
                 faults, inflight, writes>>

\* 1/Res minute passes.
OldPass ==
  /\ now < MaxTime
  /\ now' = now + 1
  /\ log' = NoLog
  /\ reply' = NoReply
  /\ UNCHANGED <<variant, ticked, notifyAll, bossData, sheet, bossDataB,
                 pushed, cmds, faults, inflight, writes>>

NextOld ==
  \/ \E n \in Names, s \in OldInputs : OldSetInterval(n, s)
  \/ \E n \in Names, ago \in DeathAgo : OldDeath(n, ago)
  \/ OldPass

SpecOld == InitOld /\ [][NextOld]_vars

\* ------------------------------------- bot A with a negative interval
\* "/設定 name -1" stores interval = -60 minutes (Math.floor(-1) = -1 and
\* m = 0).  Rows as bot A left them after /設定 name 1, /重生 and then /設定
\* with the negative text; RowBack's target passed a minute before the
\* process started.
NegInputs == {MinusDur(1, <<>>)}
RowBack(n) == [RowDue(n) EXCEPT !.interval = -60, !.nextRespawn = Start - Res]
RowNeg(n) == [RowDue(n) EXCEPT !.interval = -60]
ListSheets ==
  {<<RowNeg("A")>>, <<RowBack("A")>>, <<RowOverdue("A"), RowBack("B")>>}

InitList ==
  /\ variant = "botAB"
  /\ now = Start
  /\ ticked = FALSE
  /\ notifyAll = TRUE
  /\ sheet \in ListSheets
  /\ bossData = Load(sheet)
  /\ bossDataB = <<>>
  /\ pushed = NoPush
  /\ log = NoLog
  /\ cmds = 0
  /\ faults = 0
  /\ reply = NoReply
  /\ inflight = NoFlight
  /\ writes = <<>>

NextList ==
  \/ \E n \in Names, s \in NegInputs : SetInterval(n, s)
  \/ \E n \in Names, s \in RemainInputs : Respawn(n, s)
  \/ List
  \/ NotifierTick
  \/ Pass

SpecList == InitList /\ [][NextList]_vars

\* ================================================================ claims
\* A record the ticks look at: it has a target and an interval.
TimedEntry(b) == b.nextRespawn # Null /\ ~Falsy(b.interval)

\* The registry the cron callback of the deployed program works on.
TickRegistry == IF variant = "botAB" THEN bossDataB ELSE bossData

InWindow(diff) == diff > 0 /\ diff <= NotifyLead

\* The number of whole intervals that takes a target at or before t past t.
SkipCount(old, iv, t) == ((t - old) \div (iv * Res)) + 1

\* N = floor(-diff / intervalMinutes) + 1
MissedN(diff, iv) == ((0 - diff) \div iv) + 1

\* C1: while a record's target stays the same, at most one push is
\* delivered for it, however many ticks fall inside the lead window, for
\* the scheduler and for the notifier that reloads the sheet on every tick.
C1_AtMostOnePushPerCycle ==
  \A n \in Names : pushed[n].count <= 1

\* C2: a tick that finds a record's target at or before now moves it to
\* old + N * I for the smallest N >= 1 that puts it strictly after now.
C2_CatchUpSkipsAllIntervals ==
  [][\A i \in 1..Len(bossData) :
       LET b == bossData[i] IN
       (log'[b.name] = "caught" /\ b.nextRespawn <= now)
       => bossData'[i].nextRespawn =
            b.nextRespawn
            + SkipCount(b.nextRespawn, b.interval, now) * b.interval * Res]_vars

\* C3: a tick that finds a record overdue (diff <= 0) adds exactly
\* N = floor(-diff / interval) + 1 to its missedCount.
C3_MissedCountAddsN ==
  [][\A i \in 1..Len(bossData) :
       LET b == bossData[i] IN
       log'[b.name] = "caught"
       => bossData'[i].missedCount =
            b.missedCount
            + MissedN(DiffMinutes(b.nextRespawn, now), b.interval)]_vars

\* C4: a tick that finds a record's target exactly k intervals in the past,
\* k >= 1, leaves the target in (now, now + I] and adds k to missedCount.
C4_ExactMultipleOverdue ==
  [][\A i \in 1..Len(bossData) :
       LET b == bossData[i]
           k == (now - b.nextRespawn) \div (b.interval * Res)
       IN (/\ log'[b.name] = "caught"
           /\ now > b.nextRespawn
           /\ (now - b.nextRespawn) % (b.interval * Res) = 0)
          => /\ bossData'[i].nextRespawn > now
             /\ bossData'[i].nextRespawn <= now + b.interval * Res
             /\ bossData'[i].missedCount = b.missedCount + k]_vars

\* C5: when a tick has completed, every record with a target and an
\* interval that it looked at has its target strictly after the tick's now.
C5_TargetsAheadAfterTick ==
  \A i \in 1..Len(TickRegistry) :
     LET b == TickRegistry[i] IN
     (TimedEntry(b) /\ log[b.name] \notin {"none", "skip", "masked"})
     => b.nextRespawn > now

\* C6: a tick of the scheduler dispatches a push for a record exactly when
\* 0 < diff <= 10 and the flag is false, with notifications permitted.
C6_NotifiesExactlyInWindow ==
  \A i \in 1..Len(bossData) :
     LET b == bossData[i]
         diff == DiffMinutes(b.nextRespawn, now)
     IN variant # "botAB" /\ TimedEntry(b)
        => /\ log[b.name] = "idle"
              => ~(InWindow(diff) /\ ~b.notified /\ notifyAll)
           /\ log[b.name] \in {"sent", "failed"} => InWindow(diff)

\* C7: with one tick in every minute, at whatever instant of it, no command
\* and no rejected call, a record whose target lay at least 10 minutes
\* ahead when the scheduler started has been notified exactly once by the
\* time the target is reached.
C7_NotifiedBeforeTarget ==
  \A i \in 1..Len(bossData) :
     LET b == bossData[i] IN
     (/\ variant # "botAB"
      /\ cmds = 0 /\ faults = 0
      /\ TimedEntry(b) /\ b.missedCount = 0
      /\ b.nextRespawn >= Start + NotifyLead * Res
      /\ now >= b.nextRespawn)
     => pushed[b.name].target = b.nextRespawn /\ pushed[b.name].count = 1

\* C8: after a rejected push inside the lead window the flag is still
\* false, and a later tick still inside the window of the same target
\* attempts the push again.
C8_RetryAfterFailedPush ==
  \A i \in 1..Len(bossData) :
     LET b == bossData[i]
         diff == DiffMinutes(b.nextRespawn, now)
     IN (/\ variant # "botAB"
         /\ TimedEntry(b)
         /\ pushed[b.name].target = b.nextRespawn
         /\ pushed[b.name].failed >= 1
         /\ pushed[b.name].count = 0)
        => /\ ~b.notified
           /\ (InWindow(diff) /\ notifyAll /\ DayPermits(b.notifyDate))
              => log[b.name] # "idle"

\* C9: every step of a command or of a tick that changes a record's target
\* (catch-up of a tick, /重生, catch-up of the list command) leaves the
\* record's flag false.
C9_TargetChangeClearsFlag ==
  [][Restart \/
     \A n \in Keys(bossData) \cap Keys(bossData') :
        Get(bossData, n).nextRespawn # Get(bossData', n).nextRespawn
        => ~Get(bossData', n).notified]_vars

\* A tick has just advanced a record that had been reported, and its flag
\* is false.
C9_Witness ==
  \E i \in 1..Len(bossData) :
     /\ log[bossData[i].name] = "caught"
     /\ bossData[i].missedCount >= 1
     /\ bossData[i].nextRespawn > now
     /\ ~bossData[i].notified

FlagCleared(reg, reg2, n) ==
  /\ Has(reg, n) /\ Has(reg2, n)
  /\ Get(reg, n).notified /\ ~Get(reg2, n).notified

\* C10: outside a respawn report, a record's flag goes from true to false
\* only in a step that gives the record a new target: no tick, list query,
\* interval update or reload clears it while the target stays the same.
C10_FlagClearedOnlyWithNewTarget ==
  [][(\E n \in Names, s \in RemainInputs : Respawn(n, s)) \/
     \A n \in Names :
        /\ FlagCleared(bossData, bossData', n)
           => Get(bossData, n).nextRespawn # Get(bossData', n).nextRespawn
        /\ FlagCleared(bossDataB, bossDataB', n)
           => Get(bossDataB, n).nextRespawn # Get(bossDataB', n).nextRespawn]_vars

\* C11: missedCount is never negative and grows only in a catch-up, by one
\* for every interval the target is rolled forward; a respawn report never
\* raises it and setting the interval leaves it as it was.
C11_MissedCountPerInterval ==
  [][Restart \/
     \A n \in Keys(bossData) \cap Keys(bossData') :
        LET b == Get(bossData, n)
            c == Get(bossData', n)
        IN /\ c.missedCount >= 0
           /\ c.missedCount > b.missedCount
              => /\ TimedEntry(b)
                 /\ c.nextRespawn - b.nextRespawn
                      = (c.missedCount - b.missedCount) * b.interval * Res
           /\ (\E s \in RemainInputs : Respawn(n, s))
              => c.missedCount <= b.missedCount
           /\ (\E s \in IntervalInputs : SetInterval(n, s))
              => c.missedCount = b.missedCount]_vars

\* The answers a respawn report can get; the answer of a step tells which
\* command the step was.
RespawnAnswers == {"configureFirst", "thrown", "respawnSet"}
RespawnAnswered(n) == reply'.name = n /\ reply'.kind \in RespawnAnswers

\* C12: a respawn report for a name that has no record, or whose record has
\* no interval, is answered with the request to set the interval first and
\* leaves the registry and the sheet as they were.
C12_UnconfiguredRespawnRefused ==
  [][\A n \in Names :
       (~Configured(bossData, n) /\ RespawnAnswered(n))
       => /\ reply'.kind = "configureFirst"
          /\ bossData' = bossData
          /\ sheet' = sheet]_vars

\* The durations that are no "H" or "H.MM": a text without a number, a dot
\* with nothing behind it, a negative number.
Malformed == {s \in DurInputs : s.ip = NaN \/ s.neg \/ (s.dot /\ s.fd = <<>>)}

\* C13: /設定 or /重生 with a malformed duration is answered with an error
\* and leaves the registry and the sheet as they were.
C13_MalformedDurationRejected ==
  [][\A n \in Names, s \in Malformed :
       (SetInterval(n, s) \/ Respawn(n, s))
       => /\ reply'.kind \in {"error", "configureFirst"}
          /\ bossData' = bossData
          /\ sheet' = sheet]_vars

\* The hours and minutes a duration text stands for when the part behind the
\* dot is read as a whole number of minutes.
Reading(s) == [h |-> s.ip, m |-> DigitsVal(s.fd)]
Examples == {Dur(1, <<3, 0>>), Dur(1, <<0, 5>>), Dur(1, <<5>>), Dur(3, <<>>)}

\* C14: "1.30" is read as 1 h 30 min, "1.05" as 1 h 5 min, "1.5" as 1 h 5 min
\* and "3" as 3 h 0 min, by /設定 (the interval it stores and reports) and by
\* /重生 (the target it sets).
C14_DotSeparatesHoursAndMinutes ==
  [][\A n \in Names, s \in Examples :
       /\ SetInterval(n, s)
          => /\ reply'.h = Reading(s).h /\ reply'.m = Reading(s).m
             /\ Get(bossData', n).interval = 60 * Reading(s).h + Reading(s).m
       /\ (Configured(bossData, n) /\ Respawn(n, s))
          => reply'.at = AddToNow(now, Reading(s).h, Reading(s).m)]_vars

\* The durations whose minute part is 60 or more, and the text that holds no
\* number.
Unreadable ==
  {s \in DurInputs : s.ip = NaN \/ (~s.neg /\ Len(s.fd) = 2 /\ DigitsVal(s.fd) >= 60)}

\* C15: a duration whose minute part is 60 or more, or that is no number, is
\* answered with a parse error: /設定 stores no interval for it and /重生
\* sets no target.
C15_MinutesBelowSixty ==
  [][\A n \in Names, s \in Unreadable :
       /\ SetInterval(n, s)
          => /\ reply'.kind = "error"
             /\ bossData' = bossData
       /\ (Configured(bossData, n) /\ Respawn(n, s))
          => /\ reply'.kind = "error"
             /\ bossData' = bossData]_vars

\* (h, m) written as "H.MM" with the minutes as two digits
FormatHM(h, m) == Dur(h, <<m \div 10, m % 10>>)

Offsets == {[h |-> h, m |-> m] : h \in 0..1, m \in {0, 5, 30}}

\* C17: for a boss with an interval, a respawn report with the offset (h, m)
\* sets the target to now + 60 h + m minutes, whatever the interval and the
\* previous target are, and clears the flag.
C17_ReportSetsTargetFromNow ==
  [][\A n \in Names, o \in Offsets :
       (/\ Configured(bossData, n)
        /\ IF variant = "legacy"
           THEN LegacyRespawn(n, FormatHM(o.h, o.m))
           ELSE Respawn(n, FormatHM(o.h, o.m)))
       => /\ Get(bossData', n).nextRespawn = now + (60 * o.h + o.m) * Res
          /\ ~Get(bossData', n).notified]_vars

\* C18: the answer to the list command holds every record, the records with
\* a target in ascending order of the target, compared by minutes, and the
\* records without a target behind them.
C18_ListAscendingByTarget ==
  reply.kind = "list" =>
    /\ {reply.lines[i].name : i \in 1..Len(reply.lines)} = Keys(bossData)
    /\ \A i, j \in 1..Len(reply.lines) :
         i < j =>
           LET a == Get(bossData, reply.lines[i].name)
               b == Get(bossData, reply.lines[j].name)
           IN /\ a.nextRespawn = Null => b.nextRespawn = Null
              /\ (a.nextRespawn # Null /\ b.nextRespawn # Null)
                 => DiffMinutes(a.nextRespawn, now) <= DiffMinutes(b.nextRespawn, now)

\* C19: the remaining time a list line shows for a record with a target is
\* (d \div 60, d mod 60) for the d whole minutes from now to the target, and
\* (0, 0) when the target is not after now; neither part is negative.
C19_RemainingTimeFloorsAtZero ==
  reply.kind = "list" =>
    \A i \in 1..Len(reply.lines) :
      LET line == reply.lines[i]
          b == Get(bossData, line.name)
          d == DiffMinutes(b.nextRespawn, now)
      IN (Has(bossData, line.name) /\ b.nextRespawn # Null)
         => /\ line.h >= 0 /\ line.m >= 0
            /\ IF d <= 0 THEN line.h = 0 /\ line.m = 0
               ELSE line.h = d \div 60 /\ line.m = d % 60

\* C20: a tick in which the push for one boss is rejected still works
\* through every other record: none that is overdue, or inside its window
\* and not yet notified, is left as the tick found it.
C20_FailedPushDoesNotStopTick ==
  \A n \in Keys(TickRegistry), m \in Keys(TickRegistry) :
    (log[n] = "failed" /\ log[m] = "none")
    => LET b == Get(TickRegistry, m)
           d == DiffMinutes(b.nextRespawn, now)
       IN ~(TimedEntry(b) /\ (d <= 0 \/ (InWindow(d) /\ ~b.notified)))

\* C21: a tick pushes a reminder for a record only when the record's
\* notifyDate permits today: never for "NONE", and for a day list only on a
\* day of the list; for the scheduler and for the read-only notifier.
C21_PushOnlyOnPermittedDay ==
  \A n \in Keys(TickRegistry) :
    log[n] = "sent" => DayPermits(Get(TickRegistry, n).notifyDate)

\* The step called the write of registry reg: the sheet holds reg's rows, or
\* the request was rejected.
Handed(reg) == sheet' = Save(reg, sheet, TRUE) \/ faults' > faults

\* C22: a step that changes a record in memory (a command, a tick of the
\* scheduler, a tick of the notifier after its reload) also calls the write
\* of the registry it changed; only the load at a start is exempt.
C22_EveryChangeIsSaved ==
  [][Restart \/
     /\ bossData' # bossData => Handed(bossData')
     /\ (bossDataB' # bossDataB /\ bossDataB' # Load(sheet))
        => Handed(bossDataB')]_vars

\* C23: a failed write of the registry does not stop anything: the command
\* still gets its reply, the tick still works through every record, and the
\* process stays up.
C23_FailedSaveStopsNothing ==
  [][/\ reply'.kind # "saveThrown"
     /\ variant' = variant
     /\ (~ticked /\ ticked')
        => \A n \in Keys(bossData') : log'[n] \notin {"none", "saveThrown"}]_vars

Records(reg) == {reg[i] : i \in 1..Len(reg)}

\* C24: when no request was rejected so far, a restart loads a registry with
\* the names and the field values the registry had before it; a deleted boss
\* is not back.
C24_RestartRoundTrip ==
  [][(Restart /\ faults' = 0) => Records(bossData') = Records(bossData)]_vars

\* C25: a record that appears in the registry through a command has no
\* target, and a record without a target gets one only by a respawn report
\* for its name: not by a tick, a list query or an interval update.
C25_NoTargetBeforeReport ==
  [][Restart \/
     \A n \in Names :
       /\ (~Has(bossData, n) /\ Has(bossData', n))
          => Get(bossData', n).nextRespawn = Null
       /\ (/\ Has(bossData, n) /\ Has(bossData', n)
           /\ Get(bossData, n).nextRespawn = Null
           /\ Get(bossData', n).nextRespawn # Null)
          => reply'.kind = "respawnSet" /\ reply'.name = n]_vars

\* C26: a name leaves the registry only in the step that answers a delete
\* command for that name, and a delete command for a name the registry does
\* not hold changes neither the registry nor the sheet.
C26_OnlyDeleteRemoves ==
  [][\A n \in Names :
       /\ (Has(bossData, n) /\ ~Has(bossData', n))
          => reply'.kind = "deleted" /\ reply'.name = n
       /\ (reply'.kind = "absent" /\ reply'.name = n)
          => bossData' = bossData /\ sheet' = sheet]_vars

\* C27: every record that has a target has an interval that is a number
\* above zero.
C27_TimedRecordHasInterval ==
  \A n \in Keys(bossData) :
    Get(bossData, n).nextRespawn # Null
    => Get(bossData, n).interval # NaN /\ Get(bossData, n).interval > 0

\* C28: a tick that catches a record up checks the reminder against the new
\* target: when the new target is inside the window the push for it is made
\* in that same tick; and no tick pushes for a target at or before now.
C28_CatchUpBeforeReminder ==
  \A n \in Keys(TickRegistry) :
    LET b == Get(TickRegistry, n) IN
    /\ (/\ log[n] = "caught"
        /\ notifyAll
        /\ InWindow(DiffMinutes(b.nextRespawn, now)))
       => /\ pushed[n].target = b.nextRespawn
          /\ pushed[n].count + pushed[n].failed >= 1
    /\ log[n] = "sent" => pushed[n].target > now

\* The cron callback run once more at this instant, every request accepted;
\* the notifier starts with its reload.
TickAgain ==
  IF variant = "botAB"
  THEN SendNotifications([bd |-> Load(sheet), p |-> pushed, lg |-> NoLog,
                          run |-> TRUE, nf |-> 0], 1, now, NoName)
  ELSE SchedulerLoop([bd |-> bossData, sh |-> sheet, p |-> pushed,
                      lg |-> NoLog, nf |-> 0],
                     1, now, notifyAll, NoName, NoName, variant = "sheetNow")

\* C29: right after a tick, running the tick a second time at the same
\* instant changes no record and makes no further push, also when a record
\* was several intervals overdue before the first run.
C29_TickIdempotent ==
  (ticked /\ log # NoLog)
  => /\ TickAgain.bd = TickRegistry
     /\ KeepPushed(TickAgain.p, TickAgain.bd) = pushed

\* C30: a record's flag goes from false to true only in a step that has
\* delivered a push for the target the record then holds: no command gets
\* between a tick's decision to push and its setting of the flag.
C30_FlagMeansPushedForTarget ==
  [][Restart \/
     \A n \in Keys(bossData) \cap Keys(bossData') :
       (~Get(bossData, n).notified /\ Get(bossData', n).notified)
       => /\ pushed'[n].target = Get(bossData', n).nextRespawn
          /\ pushed'[n].count >= 1]_vars

\* C31: once every save under way has been applied, the rows of the sheet
\* are those of the registry at the most recent save call, which is the
\* registry in memory: an older snapshot never lands on a newer one.
C31_LastSaveCallWins ==
  writes = <<>> => SubSeq(sheet, 1, Len(bossData)) = bossData

\* The pushMessage calls made for n in the step.
AttemptsInStep(n) ==
  IF pushed'[n].target = pushed[n].target
  THEN (pushed'[n].count + pushed'[n].failed) - (pushed[n].count + pushed[n].failed)
  ELSE pushed'[n].count + pushed'[n].failed

\* C32: a tick in which a push for a record is rejected tries again for
\* that record in the same tick, and no tick makes more than 3 delivery
\* attempts for one record.
C32_RejectedPushIsRetried ==
  [][(~ticked /\ ticked')
     => \A n \in Names :
          /\ AttemptsInStep(n) <= 3
          /\ log'[n] = "failed" => AttemptsInStep(n) >= 2]_vars

\* C33: a tick of the scheduler advances the target and raises missedCount
\* of every record that has a target and an interval and is overdue
\* (diff <= 0), whatever its notifyDate and whatever the global switch.
C33_CatchUpIgnoresMaskAndSwitch ==
  [][(~ticked /\ ticked' /\ variant \in {"sheet", "sheetNow"})
     => \A i \in 1..Len(bossData) :
          LET b == bossData[i] IN
          (/\ b.nextRespawn # Null /\ ~Falsy(b.interval)
           /\ DiffMinutes(b.nextRespawn, now) <= 0)
          => /\ bossData'[i].nextRespawn > b.nextRespawn
             /\ bossData'[i].missedCount > b.missedCount]_vars

\* C34: while the global switch is off (after /關閉通知 and before the next
\* /開啟通知), a tick makes no pushMessage call for any record and sets no
\* notified flag.
C34_NoPushWhileSwitchedOff ==
  [][(~ticked /\ ticked' /\ ~notifyAll)
     => \A n \in Names :
          AttemptsInStep(n) = 0 /\ log'[n] \notin {"sent", "failed"}]_vars

\* C35: /設定 on a name the registry holds changes the interval of that
\* record and nothing else in the registry; on a new name it adds a record
\* with no target, notified false, every day permitted and missedCount 0.
C35_SetIntervalChangesIntervalOnly ==
  [][\A n \in Names :
       (reply'.kind = "intervalSet" /\ reply'.name = n)
       => /\ Keys(bossData') = Keys(bossData) \cup {n}
          /\ \A m \in Keys(bossData) \ {n} : Get(bossData', m) = Get(bossData, m)
          /\ Has(bossData, n)
             => Get(bossData', n)
                = [Get(bossData, n) EXCEPT !.interval = Get(bossData', n).interval]
          /\ ~Has(bossData, n)
             => /\ Get(bossData', n).nextRespawn = Null
                /\ Get(bossData', n).notified = FALSE
                /\ Get(bossData', n).notifyDate = "ALL"
                /\ Get(bossData', n).missedCount = 0]_vars

\* C36: missedCount of a record rises, and its target is advanced by the
\* catch-up, only in a step that finds the target at or before the current
\* time; a target still ahead by less than a minute is left alone.
C36_CatchUpOnlyWhenTargetPassed ==
  [][Restart \/
     \A n \in Keys(bossData) \cap Keys(bossData') :
       (\/ Get(bossData', n).missedCount > Get(bossData, n).missedCount
        \/ log'[n] = "caught")
       => /\ Get(bossData, n).nextRespawn # Null
          /\ Get(bossData, n).nextRespawn <= now]_vars

\* C37: /王 of bot A ends with its list for every stored interval, and
\* after it no record that has a target and an interval has its target
\* before now.
C37_ListLoopEndsAheadOfNow ==
  (variant = "botAB" /\ reply.kind \in {"list", "thrown"})
  => /\ reply.kind = "list"
     /\ \A i \in 1..Len(bossData) :
          (bossData[i].nextRespawn # Null /\ ~Falsy(bossData[i].interval))
          => bossData[i].nextRespawn >= now

\* C38: /王 leaves nextRespawn, missedCount and the notified flag of every
\* record that is not overdue (no target, or a target not before now) as
\* they were.
C38_ListLeavesFutureRecordsAlone ==
  [][reply'.kind = "list"
     => \A n \in Keys(bossData) :
          LET b == Get(bossData, n) IN
          (b.nextRespawn = Null \/ b.nextRespawn >= now)
          => /\ Has(bossData', n)
             /\ Get(bossData', n).nextRespawn = b.nextRespawn
             /\ Get(bossData', n).missedCount = b.missedCount
             /\ Get(bossData', n).notified = b.notified]_vars

====
